---- MODULE Spec2Model ----
(***************************************************************************)
(* Entity extraction, deduplication and aggregation pipeline of the        *)
(* neocortex repository: the text chunker, the entity normalizer, the      *)
(* per-document mention deduplicator (extractors/extractor.py) and the     *)
(* cross-document aggregator (extractors/entity_aggregator.py).            *)
(*                                                                         *)
(* Python strings are modelled as sequences of one-character strings, so   *)
(* that slicing, searching and the regular expressions of the source are   *)
(* computed character by character.  Python indices are 0-based; the       *)
(* operators below keep Python's indices and convert at the sequence       *)
(* access.                                                                 *)
(***************************************************************************)
EXTENDS Integers, Sequences, FiniteSets, TLC

\* ------------------------------------------------------------------ bounds
MaxTextLen == 5
MaxChunkSize == 4
MaxOverlap == 3
MaxChunks == 2
MaxEnts == 2
MaxCalls == 2
MaxRecords == 2
MaxRuns == 2
MaxWords == 2
MaxLines == 3

\* --------------------------------------------------------------- variables
VARIABLES
    \* chunk_text (extractor.py:41-65)
    text,          \* the argument text
    chunk_size,    \* the argument chunk_size
    overlap,       \* the argument overlap
    start,         \* the local start
    chunks,        \* the local list chunks
    cuts,          \* history: the <<start, end>> of every chunk appended
    cpc,           \* position in chunk_text: "idle", "loop", "returned"
    \* extract_entities and process_chunk (extractor.py:94-152)
    long_text,     \* len(text) > 900000: the document is processed in chunks
    chunk_docs,    \* per chunk, the document nlp() answers with (an index of DocPool)
    ci,            \* the chunk being processed (1-based)
    epc,           \* position: "idle", "ner", "ents", "done", "raised"
    entities,      \* the local set entities of process_chunk
    pos,           \* the token index the iteration over doc.ents has reached
    nents,         \* the number of entities of doc.ents iterated so far
    all_entities,  \* the local set all_entities of extract_entities
    all_contexts,  \* the dict all_contexts, which process_chunk updates in place
    first_seen,    \* history: per (type, normalized key), the first admitted mention
    last_mention,  \* history: the admitted mention processed last, or <<>>
    ent,           \* history: the ent iterated last, <<label, cleaned text>>, or <<>>
    ner_failed,    \* history: the chunks on which nlp() raised
    \* EntityAggregator (entity_aggregator.py:17-143)
    files,            \* the files under metadata_dir: <<directory, name>> -> content
    aggregated_data,  \* the attribute aggregated_data: None or a DataFrame
    apc,              \* position: "idle", "ready" (constructed), "aggregated"
    calls,            \* the number of aggregate_entities calls made
    entity_files,     \* history: what find_entity_files returned to the last call
    frames_read,      \* history: per file of the last call, what process_entity_file returned
    \* format_markdown_table and parse_entity_table on one document's result
    table,            \* the entities and contexts extract_entities returned
    table_file,       \* the content export_results wrote for them
    decoded,          \* what parse_entity_table returned for that file
    kpc,              \* position: "idle", "result", "written", "parsed"
    \* normalize_entity and entities_match on two strings
    norm_x,           \* the argument entity_text
    norm_y,           \* a second argument, a variant of the first
    normalized,       \* the values returned so far
    npc,              \* position: "idle", "start", "once", "twice", "matched"
    \* process_sec_filings (process_filings.py:15-102)
    todo,             \* the documents the loops of the run have yet to visit
    outputs,          \* the output files under metadata_dir: path -> content
    total_files,      \* the local total_files
    processed_files,  \* the local processed_files
    skipped_files,    \* the local skipped_files
    fpc,              \* position: "idle", "running", "complete", "raised"
    runs,             \* the number of runs started
    extracted,        \* history: the documents this run called extract_entities for
    written,          \* history: the documents any run wrote the output of
    complete_before   \* history: an earlier run ran to its end

chunkVars == <<text, chunk_size, overlap, start, chunks, cuts, cpc>>
extractVars == <<long_text, chunk_docs, ci, epc, entities, pos, nents,
                 all_entities, all_contexts, first_seen, last_mention, ent, ner_failed>>
aggVars == <<files, aggregated_data, apc, calls, entity_files, frames_read>>
codecVars == <<table, table_file, decoded, kpc>>
normVars == <<norm_x, norm_y, normalized, npc>>
filingVars == <<todo, outputs, total_files, processed_files, skipped_files, fpc,
                runs, extracted, written, complete_before>>
vars == <<chunkVars, extractVars, aggVars, codecVars, normVars, filingVars>>

\* What the steps of one component leave unchanged.
notChunkVars == <<extractVars, aggVars, codecVars, normVars, filingVars>>
notExtractVars == <<chunkVars, aggVars, codecVars, normVars, filingVars>>
notAggVars == <<chunkVars, extractVars, codecVars, normVars, filingVars>>
notCodecVars == <<chunkVars, extractVars, aggVars, normVars, filingVars>>
notNormVars == <<chunkVars, extractVars, aggVars, codecVars, filingVars>>
notFilingVars == <<chunkVars, extractVars, aggVars, codecVars, normVars>>

\* The value parse_entity_table and process_entity_file return for a file
\* they cannot turn into a table, and aggregated_data before any result.
None == [none |-> TRUE]

\* ------------------------------------------------------------ idle states
\* The values a component's variables hold while another one runs.
ChunkIdle ==
    /\ text = <<>>
    /\ chunk_size = 1
    /\ overlap = 0
    /\ start = 0
    /\ chunks = <<>>
    /\ cuts = <<>>
    /\ cpc = "idle"

ExtractIdle ==
    /\ long_text = FALSE
    /\ chunk_docs = <<>>
    /\ ci = 1
    /\ epc = "idle"
    /\ entities = {}
    /\ pos = 0
    /\ nents = 0
    /\ all_entities = {}
    /\ all_contexts = <<>>
    /\ first_seen = <<>>
    /\ last_mention = <<>>
    /\ ent = <<>>
    /\ ner_failed = {}

CodecIdle ==
    /\ table = <<>>
    /\ table_file = <<>>
    /\ decoded = None
    /\ kpc = "idle"

NormIdle ==
    /\ norm_x = <<>>
    /\ norm_y = <<>>
    /\ normalized = <<>>
    /\ npc = "idle"

FilingIdle ==
    /\ todo = <<>>
    /\ outputs = <<>>
    /\ total_files = 0
    /\ processed_files = 0
    /\ skipped_files = 0
    /\ fpc = "idle"
    /\ runs = 0
    /\ extracted = {}
    /\ written = {}
    /\ complete_before = FALSE

AggIdle ==
    /\ files = <<>>
    /\ aggregated_data = None
    /\ apc = "idle"
    /\ calls = 0
    /\ entity_files = <<>>
    /\ frames_read = <<>>

\* Every component but the running one at rest.
OthersIdle(running) ==
    /\ IF running = "chunk" THEN TRUE ELSE ChunkIdle
    /\ IF running = "extract" THEN TRUE ELSE ExtractIdle
    /\ IF running = "agg" THEN TRUE ELSE AggIdle
    /\ IF running = "codec" THEN TRUE ELSE CodecIdle
    /\ IF running = "norm" THEN TRUE ELSE NormIdle
    /\ IF running = "filing" THEN TRUE ELSE FilingIdle

\* ------------------------------------------------------------ Python basics
Min(a, b) == IF a < b THEN a ELSE b
Max(a, b) == IF a > b THEN a ELSE b

\* s[a:b] with Python's clamping and negative indices counted from the end.
PySlice(s, a, b) ==
    LET n  == Len(s)
        lo == IF a < 0 THEN Max(a + n, 0) ELSE Min(a, n)
        hi == IF b < 0 THEN Max(b + n, 0) ELSE Min(b, n)
    IN IF lo >= hi THEN <<>> ELSE SubSeq(s, lo + 1, hi)

\* Whether pat occurs in s at the 0-based index i.
OccursAt(s, pat, i) ==
    /\ i >= 0
    /\ i + Len(pat) <= Len(s)
    /\ \A k \in 1..Len(pat) : s[i + k] = pat[k]

\* s.rfind(pat): the highest 0-based index of an occurrence, or -1.
rfind(s, pat) ==
    LET hits == {i \in 0..Len(s) : OccursAt(s, pat, i)}
    IN IF hits = {} THEN -1 ELSE CHOOSE i \in hits : \A j \in hits : j <= i

RECURSIVE Concat(_)
Concat(ss) == IF ss = <<>> THEN <<>> ELSE Head(ss) \o Concat(Tail(ss))

\* ------------------------------------------------------------- characters
UpperCase == <<"A", "B", "C", "D", "E", "F", "G", "H", "I", "J", "K", "L", "M",
               "N", "O", "P", "Q", "R", "S", "T", "U", "V", "W", "X", "Y", "Z">>
LowerCase == <<"a", "b", "c", "d", "e", "f", "g", "h", "i", "j", "k", "l", "m",
               "n", "o", "p", "q", "r", "s", "t", "u", "v", "w", "x", "y", "z">>
Digits == {"0", "1", "2", "3", "4", "5", "6", "7", "8", "9"}
Range(f) == {f[i] : i \in DOMAIN f}

\* str.lower() on one character.
LowerChar(c) ==
    IF \E i \in 1..Len(UpperCase) : UpperCase[i] = c
    THEN LowerCase[CHOOSE i \in 1..Len(UpperCase) : UpperCase[i] = c]
    ELSE c

lower(s) == [i \in 1..Len(s) |-> LowerChar(s[i])]

\* \w of the re module.
IsWordChar(c) == c \in Range(UpperCase) \cup Range(LowerCase) \cup Digits \cup {"_"}
\* \s of the re module, and the whitespace of str.split() and str.strip().
IsSpace(c) == c \in {" ", "\t", "\n", "\r"}

\* str.isdigit()
isdigit(s) == s # <<>> /\ \A i \in 1..Len(s) : s[i] \in Digits

EndsWith(s, suf) ==
    /\ Len(suf) <= Len(s)
    /\ SubSeq(s, Len(s) - Len(suf) + 1, Len(s)) = suf

DropLast(s, n) == SubSeq(s, 1, Len(s) - n)

\* s.split(): the maximal runs of non-whitespace characters.
RECURSIVE split_from(_, _, _, _)
split_from(s, i, cur, acc) ==
    IF i > Len(s)
    THEN IF cur = <<>> THEN acc ELSE Append(acc, cur)
    ELSE IF IsSpace(s[i])
         THEN split_from(s, i + 1, <<>>, IF cur = <<>> THEN acc ELSE Append(acc, cur))
         ELSE split_from(s, i + 1, Append(cur, s[i]), acc)

split(s) == split_from(s, 1, <<>>, <<>>)

\* sep.join(parts)
RECURSIVE join(_, _)
join(sep, parts) ==
    IF parts = <<>> THEN <<>>
    ELSE IF Len(parts) = 1 THEN parts[1]
    ELSE parts[1] \o sep \o join(sep, Tail(parts))

\* ' '.join(s.split())
collapse_spaces(s) == join(<<" ">>, split(s))

\* s.strip(chars): drop the characters of the set from both ends.
RECURSIVE lstrip_set(_, _)
lstrip_set(s, cs) ==
    IF s # <<>> /\ s[1] \in cs THEN lstrip_set(Tail(s), cs) ELSE s
RECURSIVE rstrip_set(_, _)
rstrip_set(s, cs) ==
    IF s # <<>> /\ s[Len(s)] \in cs THEN rstrip_set(DropLast(s, 1), cs) ELSE s
strip_set(s, cs) == rstrip_set(lstrip_set(s, cs), cs)

strip(s) == strip_set(s, {" ", "\t", "\n", "\r"})

\* A pattern anchored by $ matches at the end of the string or just before
\* one final newline: the part of s such a match must end, and the rest.
DollarBody(s) == IF s # <<>> /\ s[Len(s)] = "\n" THEN DropLast(s, 1) ELSE s
DollarTail(s) == IF s # <<>> /\ s[Len(s)] = "\n" THEN <<"\n">> ELSE <<>>

\* ------------------------------------------------------ clean_entity_text
articles == <<<<"t", "h", "e">>, <<"a">>, <<"a", "n">>>>

\* re.sub(r'^(the|a|an)\s+', '', text, flags=re.IGNORECASE): the first
\* alternative, in order, that is followed by whitespace is removed with
\* the whitespace after it.
article_match(s, w) ==
    /\ Len(s) > Len(w)
    /\ lower(SubSeq(s, 1, Len(w))) = w
    /\ IsSpace(s[Len(w) + 1])

RECURSIVE strip_article_from(_, _)
strip_article_from(s, i) ==
    IF i > Len(articles) THEN s
    ELSE IF article_match(s, articles[i])
         THEN lstrip_set(SubSeq(s, Len(articles[i]) + 1, Len(s)), {" ", "\t", "\n", "\r"})
         ELSE strip_article_from(s, i + 1)

strip_article(s) == strip_article_from(s, 1)

\* re.sub(r"'s$", '', text)
strip_final_possessive(s) ==
    IF EndsWith(DollarBody(s), <<"'", "s">>)
    THEN DropLast(DollarBody(s), 2) \o DollarTail(s)
    ELSE s

\* re.sub(r"s'$", 's', text)
fix_plural_possessive(s) ==
    IF EndsWith(DollarBody(s), <<"s", "'">>)
    THEN DropLast(DollarBody(s), 1) \o DollarTail(s)
    ELSE s

possessive_nouns == {<<"o", "w", "n">>,
    <<"p", "a", "r", "t">>,
    <<"s", "h", "a", "r", "e">>,
    <<"p", "o", "r", "t", "i", "o", "n">>,
    <<"d", "i", "v", "i", "s", "i", "o", "n">>,
    <<"s", "u", "b", "s", "i", "d", "i", "a", "r", "y">>,
    <<"s", "e", "g", "m", "e", "n", "t">>}

\* Whether r"'s\s+(own|part|...)$" (IGNORECASE) matches b from the 1-based
\* position p to its end.
possessive_phrase_at(b, p) ==
    /\ p + 1 <= Len(b)
    /\ b[p] = "'"
    /\ LowerChar(b[p + 1]) = "s"
    /\ \E w \in possessive_nouns :
          LET rest == SubSeq(b, p + 2, Len(b))
              gap  == Len(rest) - Len(w)
          IN /\ gap >= 1
             /\ lower(SubSeq(rest, gap + 1, Len(rest))) = w
             /\ \A k \in 1..gap : IsSpace(rest[k])

\* re.sub(r"'s\s+(own|part|share|portion|division|subsidiary|segment)$", '', ...)
strip_possessive_phrase(s) ==
    LET b    == DollarBody(s)
        hits == {p \in 1..Len(b) : possessive_phrase_at(b, p)}
    IN IF hits = {} THEN s
       ELSE LET p == CHOOSE q \in hits : \A r \in hits : q <= r
            IN SubSeq(b, 1, p - 1) \o DollarTail(s)

end_punctuation == {"\"", "'", ".", ",", ";", ":", "(", ")", "[", "]", "{", "}"}

clean_entity_text(s) ==
    strip(strip_set(strip_possessive_phrase(fix_plural_possessive(
        strip_final_possessive(strip_article(collapse_spaces(s))))), end_punctuation))

\* ------------------------------------------------------- normalize_entity
\* re.sub(r"'s?\b", '', text): an apostrophe with the s after it when a word
\* boundary follows the s, else the apostrophe alone when a word character
\* follows it.
RECURSIVE strip_possessives_from(_, _)
strip_possessives_from(s, i) ==
    IF i > Len(s) THEN <<>>
    ELSE IF s[i] = "'" /\ i + 1 <= Len(s) /\ s[i + 1] = "s"
            /\ (i + 2 > Len(s) \/ ~IsWordChar(s[i + 2]))
         THEN strip_possessives_from(s, i + 2)
    ELSE IF s[i] = "'" /\ i + 1 <= Len(s) /\ IsWordChar(s[i + 1])
         THEN strip_possessives_from(s, i + 1)
    ELSE <<s[i]>> \o strip_possessives_from(s, i + 1)

strip_possessives(s) == strip_possessives_from(s, 1)

corporate_suffixes == {<<"i", "n", "c">>,
    <<"c", "o", "r", "p">>,
    <<"c", "o", "r", "p", "o", "r", "a", "t", "i", "o", "n">>,
    <<"l", "t", "d">>,
    <<"l", "i", "m", "i", "t", "e", "d">>,
    <<"l", "l", "c">>,
    <<"l", "l", "p">>,
    <<"l", "p">>,
    <<"p", "l", "c">>}

\* The maximal run of word characters that ends s.
RECURSIVE last_word(_)
last_word(s) ==
    IF s = <<>> \/ ~IsWordChar(s[Len(s)]) THEN <<>>
    ELSE Append(last_word(DropLast(s, 1)), s[Len(s)])

\* re.sub(r'\b(inc|corp|corporation|ltd|limited|llc|llp|lp|plc)\b\.?$', '', text):
\* the last word, with one period after it if there is one, is removed when
\* it is one of the suffixes and ends the string.
strip_corporate_suffix(s) ==
    LET b    == DollarBody(s)
        core == IF b # <<>> /\ b[Len(b)] = "." THEN DropLast(b, 1) ELSE b
        w    == last_word(core)
    IN IF w \in corporate_suffixes
       THEN DropLast(core, Len(w)) \o DollarTail(s)
       ELSE s

\* normalize_entity without its first statement
normalize_entity_cased(entity_text) ==
    strip(collapse_spaces(strip_corporate_suffix(strip_possessives(entity_text))))

normalize_entity(entity_text) ==
    strip(collapse_spaces(strip_corporate_suffix(strip_possessives(lower(entity_text)))))

entities_match(entity1, entity2) == normalize_entity(entity1) = normalize_entity(entity2)

\* ------------------------------------------- process_chunk, extract_entities
\* Entity labels are strings too: they are written to and read from tables.
L_PERSON == <<"P", "E", "R", "S", "O", "N">>
L_ORG == <<"O", "R", "G">>
L_GPE == <<"G", "P", "E">>
L_LOC == <<"L", "O", "C">>
L_PRODUCT == <<"P", "R", "O", "D", "U", "C", "T">>
L_EVENT == <<"E", "V", "E", "N", "T">>
L_FAC == <<"F", "A", "C">>
L_DATE == <<"D", "A", "T", "E">>

target_types == {L_PERSON, L_ORG, L_GPE, L_LOC, L_PRODUCT, L_EVENT, L_FAC}

\* The labels the external NER model answers with in this model: two of the
\* target types and one label outside them.
ner_labels == {L_ORG, L_PERSON, L_DATE}

\* The default of get_context's parameter window.
window == 5

\* The documents nlp() answers with: the tokens of a chunk and the token
\* spans [start, end) the NER model may report as entities in it.
DocPool == <<
    [tokens |-> <<<<"A", "p", "p", "l", "e">>,
                <<"I", "n", "c", ".">>,
                <<"i", "s">>,
                <<"i", "n">>,
                <<"o", "n">>,
                <<"a", "t">>,
                <<"o", "f">>,
                <<"A", "p", "p", "l", "e", "'", "s">>>>,
     spans  |-> {<<0, 1>>, <<0, 2>>, <<1, 2>>, <<7, 8>>}],
    [tokens |-> <<<<"t", "h", "e">>,
                <<"A", "P", "P", "L", "E">>,
                <<"C", "o", "r", "p">>,
                <<"4", "2">>,
                <<"x">>>>,
     spans  |-> {<<0, 2>>, <<1, 3>>, <<2, 3>>, <<3, 4>>, <<4, 5>>}] >>

\* doc[a:b].text: the tokens of the span, separated as in the text.
span_text(doc, a, b) == join(<<" ">>, PySlice(doc.tokens, a, b))

get_context(doc, st, en, win) ==
    LET start_idx == Max(0, st - win)
        end_idx   == Min(Len(doc.tokens), en + win)
    IN collapse_spaces(span_text(doc, start_idx, end_idx))

\* Lines 103-108 without the two tests: every mention is taken.
admitted_all(label, original_text) == TRUE

\* Lines 103-108: the label is a target type and the cleaned text is longer
\* than one character and not all digits.
admitted(label, original_text) ==
    /\ label \in target_types
    /\ ~(Len(original_text) <= 1 \/ isdigit(original_text))

\* Lines 114-119: the records of the chunk's set that match the mention.
existing_matches(ents, label, normalized_text) ==
    {e \in ents : e[1] = label /\ normalize_entity(e[2]) = normalized_text}

\* A cache in which the latest context replaces the stored one.
store_context_overwrite(contexts, entity_tuple, context) ==
    [k \in DOMAIN contexts \cup {entity_tuple} |->
        IF k = entity_tuple THEN context ELSE contexts[k]]

\* Lines 127-129: the context is stored only under a key not yet present.
store_context(contexts, entity_tuple, context) ==
    IF entity_tuple \in DOMAIN contexts
    THEN contexts
    ELSE [k \in DOMAIN contexts \cup {entity_tuple} |->
            IF k = entity_tuple THEN context ELSE contexts[k]]

\* ---------------------------------------------------------- str comparison
\* The characters in code-point order: tab, newline, carriage return and
\* the printable ASCII characters but the backslash and the backquote.
CodeOrder ==
  <<"\t", "\n", "\r", " ", "!", "\"", "#", "$", "%", "&", "'", "(",
    ")", "*", "+", ",", "-", ".", "/", "0", "1", "2", "3", "4",
    "5", "6", "7", "8", "9", ":", ";", "<", "=", ">", "?", "@",
    "A", "B", "C", "D", "E", "F", "G", "H", "I", "J", "K", "L",
    "M", "N", "O", "P", "Q", "R", "S", "T", "U", "V", "W", "X",
    "Y", "Z", "[", "]", "^", "_", "a", "b", "c", "d",
    "e", "f", "g", "h", "i", "j", "k", "l", "m", "n", "o", "p",
    "q", "r", "s", "t", "u", "v", "w", "x", "y", "z", "{", "|",
    "}", "~">>

ord(c) == CHOOSE i \in 1..Len(CodeOrder) : CodeOrder[i] = c

\* a < b for two Python strings.
RECURSIVE str_lt(_, _)
str_lt(a, b) ==
    IF b = <<>> THEN FALSE
    ELSE IF a = <<>> THEN TRUE
    ELSE IF a[1] = b[1] THEN str_lt(Tail(a), Tail(b))
    ELSE ord(a[1]) < ord(b[1])

\* a < b for two tuples of two strings.
pair_lt(a, b) == str_lt(a[1], b[1]) \/ (a[1] = b[1] /\ str_lt(a[2], b[2]))

\* sorted(S) for a set of strings.
RECURSIVE sorted_strs(_)
sorted_strs(S) ==
    IF S = {} THEN <<>>
    ELSE LET m == CHOOSE x \in S : \A y \in S : ~str_lt(y, x)
         IN <<m>> \o sorted_strs(S \ {m})

\* sorted(S) for a set of tuples of two strings.
RECURSIVE sorted_pairs(_)
sorted_pairs(S) ==
    IF S = {} THEN <<>>
    ELSE LET m == CHOOSE x \in S : \A y \in S : ~pair_lt(y, x)
         IN <<m>> \o sorted_pairs(S \ {m})

\* ------------------------------------------------------ entity table codec
S_ENTITY_TYPE == <<"E", "n", "t", "i", "t", "y", " ", "T", "y", "p", "e">>
S_ENTITY_NAME == <<"E", "n", "t", "i", "t", "y", " ", "N", "a", "m", "e">>
S_FIRST_CONTEXT == <<"F", "i", "r", "s", "t", " ", "C", "o", "n", "t", "e", "x", "t">>
S_DOCUMENTS == <<"D", "o", "c", "u", "m", "e", "n", "t", "s">>
S_NO_ENTITIES == <<"N", "o", " ", "e", "n", "t", "i", "t", "i", "e", "s", " ", "f", "o",
      "u", "n", "d", ".">>
S_HEADER_MARK == <<"|", " ", "E", "n", "t", "i", "t", "y", " ", "T", "y", "p", "e", " ",
      "|">>
S_TABLE_HEADER ==
    <<"|", " ", "E", "n", "t", "i", "t", "y", " ", "T", "y", "p", "e", " ",
      "|", " ", "E", "n", "t", "i", "t", "y", " ", "N", "a", "m", "e", " ",
      "|", " ", "F", "i", "r", "s", "t", " ", "C", "o", "n", "t", "e", "x",
      "t", " ", "|", "\n">>
S_TABLE_SEPARATOR ==
    <<"|", "-", "-", "-", "-", "-", "-", "-", "-", "-", "-", "-", "-", "|",
      "-", "-", "-", "-", "-", "-", "-", "-", "-", "-", "-", "-", "-", "|",
      "-", "-", "-", "-", "-", "-", "-", "-", "-", "-", "-", "-", "-", "-",
      "-", "|", "\n">>
S_ENTITIES_SUFFIX == <<"_", "e", "n", "t", "i", "t", "i", "e", "s", ".", "m", "d">>

\* One row of format_markdown_table (extractor.py:165).
markdown_row(entity, context) ==
    <<"|", " ">> \o entity[1] \o <<" ", "|", " ">> \o entity[2]
        \o <<" ", "|", " ">> \o context \o <<" ", "|", "\n">>

RECURSIVE markdown_rows(_, _)
markdown_rows(sorted_entities, contexts) ==
    IF sorted_entities = <<>> THEN <<>>
    ELSE LET entity == Head(sorted_entities)
         IN markdown_row(entity,
                         IF entity \in DOMAIN contexts THEN contexts[entity] ELSE <<>>)
              \o markdown_rows(Tail(sorted_entities), contexts)

\* format_markdown_table(entities, contexts) (extractor.py:154-167)
format_markdown_table(ents, contexts) ==
    IF ents = {} THEN S_NO_ENTITIES
    ELSE S_TABLE_HEADER \o S_TABLE_SEPARATOR
           \o markdown_rows(sorted_pairs(ents), contexts)

\* s.split(sep) for a one-character separator: the pieces between the
\* separators, empty ones included; i is the index the next piece starts at.
RECURSIVE split_on_from(_, _, _, _)
split_on_from(s, sep, i, acc) ==
    LET hits == {j \in i..Len(s) : s[j] = sep}
    IN IF hits = {} THEN Append(acc, SubSeq(s, i, Len(s)))
       ELSE LET j == CHOOSE j \in hits : \A k \in hits : j <= k
            IN split_on_from(s, sep, j + 1, Append(acc, SubSeq(s, i, j - 1)))

split_on(s, sep) == split_on_from(s, sep, 1, <<>>)

\* pat in s
contains(s, pat) == \E i \in 0..Len(s) : OccursAt(s, pat, i)

\* The stripped cells between the first and the last pipe of a line
\* (parser.py:30, 36).
table_cells(line) ==
    LET parts == split_on(line, "|")
        inner == PySlice(parts, 1, Len(parts) - 1)
    IN [i \in 1..Len(inner) |-> strip(inner[i])]

\* A loop that ends at the first row whose cell count is not the header's.
RECURSIVE table_rows_stop(_, _, _, _)
table_rows_stop(lines, i, header, rows) ==
    IF i > Len(lines) THEN rows
    ELSE IF lines[i] # <<>> /\ lines[i][1] = "|"
              /\ Len(table_cells(lines[i])) = Len(header)
         THEN table_rows_stop(lines, i + 1, header, Append(rows, table_cells(lines[i])))
         ELSE rows

\* The loop over the lines after the separator (parser.py:34-40).
RECURSIVE table_rows(_, _, _, _)
table_rows(lines, i, header, rows) ==
    IF i > Len(lines) THEN rows
    ELSE IF lines[i] # <<>> /\ lines[i][1] = "|"
         THEN LET cells == table_cells(lines[i])
              IN table_rows(lines, i + 1, header,
                            IF Len(cells) = Len(header) THEN Append(rows, cells) ELSE rows)
         ELSE rows

\* A parser for which a table without a data row is no table.
parse_entity_table_some(content) ==
    LET lines == split_on(content, "\n")
        found == {i \in 1..Len(lines) : contains(lines[i], S_HEADER_MARK)}
    IN IF found = {} THEN None
       ELSE LET table_start == CHOOSE i \in found : \A j \in found : i <= j
                header      == table_cells(lines[table_start])
                rows        == table_rows(lines, table_start + 2, header, <<>>)
            IN IF rows = <<>> THEN None ELSE [columns |-> header, rows |-> rows]

\* parse_entity_table on the content of a file (parser.py:17-46): a
\* DataFrame, as its column names and its rows of cells, or None.
parse_entity_table(content) ==
    LET lines == split_on(content, "\n")
        found == {i \in 1..Len(lines) : contains(lines[i], S_HEADER_MARK)}
    IN IF found = {} THEN None
       ELSE LET table_start == CHOOSE i \in found : \A j \in found : i <= j
                header      == table_cells(lines[table_start])
            IN [columns |-> header,
                rows    |-> table_rows(lines, table_start + 2, header, <<>>)]

\* ------------------------------------------------------------- chunk_text
\* The characters texts are drawn from: a plain letter and the characters
\* the break markers are made of.
TextAlphabet == {"a", ".", " ", "\n"}

break_chars == << <<".", " ">>, <<"\n">>, <<".", " ", "\n">> >>

\* The loop over break_chars: best_break ends as the highest rfind result.
RECURSIVE best_break_from(_, _, _)
best_break_from(search_region, i, best) ==
    IF i > Len(break_chars) THEN best
    ELSE LET last_break == rfind(search_region, break_chars[i])
         IN best_break_from(search_region, i + 1,
                            IF last_break > best THEN last_break ELSE best)

best_break(search_region) == best_break_from(search_region, 1, -1)

search_region(t, end, ov) == PySlice(t, end - ov, end + ov)

\* A cut placed at the start of the marker instead of one character on.
chunk_end_at_marker(t, st, size, ov) ==
    LET end == st + size
    IN IF end < Len(t)
       THEN LET bb == best_break(search_region(t, end, ov))
            IN IF bb # -1 THEN end - ov + bb ELSE end
       ELSE end

\* The end of the chunk that starts at st (lines 47-60).
chunk_end(t, st, size, ov) ==
    LET end == st + size
    IN IF end < Len(t)
       THEN LET bb == best_break(search_region(t, end, ov))
            IN IF bb # -1 THEN end - ov + bb + 1 ELSE end
       ELSE end

\* A chunker that resumes one character past the cut.
next_start_skip(end) == end + 1

\* A chunker that resumes overlap characters before the cut.
next_start_overlap(end) == end - overlap

\* start = end (line 63): the next chunk starts where this one ended.
next_start(end) == end

ChunkInit ==
    /\ text \in UNION {[1..n -> TextAlphabet] : n \in 0..MaxTextLen}
    /\ chunk_size \in 1..MaxChunkSize
    /\ overlap \in 0..MaxOverlap
    /\ start = 0
    /\ chunks = <<>>
    /\ cuts = <<>>
    /\ cpc = "loop"
    /\ OthersIdle("chunk")

\* One iteration of the while loop.  The guard on Len(chunks) bounds the
\* run for configurations under which the loop does not advance.
ChunkLoop ==
    /\ cpc = "loop"
    /\ start < Len(text)
    /\ Len(chunks) <= MaxTextLen
    /\ LET end == chunk_end(text, start, chunk_size, overlap)
       IN /\ chunks' = Append(chunks, PySlice(text, start, end))
          /\ cuts' = Append(cuts, <<start, end>>)
          /\ start' = next_start(end)
    /\ UNCHANGED <<text, chunk_size, overlap, cpc>>
    /\ UNCHANGED notChunkVars

ChunkReturn ==
    /\ cpc = "loop"
    /\ start >= Len(text)
    /\ cpc' = "returned"
    /\ UNCHANGED <<text, chunk_size, overlap, start, chunks, cuts>>
    /\ UNCHANGED notChunkVars

ChunkNext == ChunkLoop \/ ChunkReturn

SpecChunk == ChunkInit /\ [][ChunkNext]_vars

ValidConfig == chunk_size >= 1 /\ 0 <= overlap /\ overlap < chunk_size

\* The character range [a, b) lies inside the range of the i-th chunk.
InChunk(i, a, b) == cuts[i][1] <= a /\ b <= cuts[i][2]

\* Some cut of the run was moved away from the naive boundary.
SomeCutMoved == \E i \in 1..Len(cuts) : cuts[i][2] # cuts[i][1] + chunk_size

\* C4 (chunking coverage): under a valid configuration the chunks returned
\* by chunk_text cover the text with no gap and no dropped character: the
\* first chunk starts at 0, the last ends at len(text), each chunk starts no
\* later than the previous one ends, every chunk is the text of its range
\* and the chunks concatenated are the text.
C4_ChunkingCoverage ==
    (cpc = "returned" /\ ValidConfig) =>
        /\ Len(cuts) = Len(chunks)
        /\ Concat(chunks) = text
        /\ \A i \in 1..Len(cuts) :
              chunks[i] = SubSeq(text, cuts[i][1] + 1, Min(cuts[i][2], Len(text)))
        /\ text # <<>> =>
              /\ cuts[1][1] = 0
              /\ cuts[Len(cuts)][2] >= Len(text)
        /\ \A i \in 1..(Len(cuts) - 1) : cuts[i + 1][1] <= cuts[i][2]
        /\ \A p \in 0..(Len(text) - 1) : \E i \in 1..Len(cuts) : InChunk(i, p, p + 1)

C4_Witness ==
    /\ cpc = "returned" /\ ValidConfig
    /\ Len(chunks) >= 2
    /\ overlap >= 1
    /\ SomeCutMoved

\* C5 (overlap keeps straddling entities whole): under a valid configuration
\* every character span shorter than overlap that straddles a naive cut
\* point start + chunk_size is contained whole in at least one chunk.
C5_StraddlingSpanWhole ==
    (cpc = "returned" /\ ValidConfig) =>
        \A i \in 1..Len(cuts) :
            LET cut == cuts[i][1] + chunk_size
            IN cut < Len(text) =>
                 \A a \in 0..(cut - 1) : \A b \in (cut + 1)..Len(text) :
                     (b - a < overlap) => \E j \in 1..Len(cuts) : InChunk(j, a, b)

\* ------------------------------------------------- the extraction pipeline
\* extract_entities on one document.  A document no longer than the
\* threshold is one span; a longer one is the chunks chunk_text returned,
\* at least one.
ExtractInit ==
    /\ long_text \in BOOLEAN
    /\ chunk_docs \in UNION {[1..n -> 1..Len(DocPool)] : n \in 1..MaxChunks}
    /\ (~long_text => Len(chunk_docs) = 1)
    /\ ci = 1
    /\ epc = "ner"
    /\ entities = {}
    /\ pos = 0
    /\ nents = 0
    /\ all_entities = {}
    /\ all_contexts = <<>>
    /\ first_seen = <<>>
    /\ last_mention = <<>>
    /\ ent = <<>>
    /\ ner_failed = {}
    /\ OthersIdle("extract")

doc_of(i) == DocPool[chunk_docs[i]]

\* process_chunk, lines 96-100: doc = nlp(text) answers and the chunk's own
\* entity set starts empty.
NerReturns ==
    /\ epc = "ner"
    /\ epc' = "ents"
    /\ entities' = {}
    /\ pos' = 0
    /\ nents' = 0
    /\ UNCHANGED <<long_text, chunk_docs, ci, all_entities, all_contexts,
                   first_seen, last_mention, ent, ner_failed>>
    /\ UNCHANGED notExtractVars

\* doc = nlp(text) raises: neither process_chunk nor extract_entities
\* catches, so the exception leaves extract_entities.
NerRaises ==
    /\ epc = "ner"
    /\ epc' = "raised"
    /\ ner_failed' = ner_failed \cup {ci}
    /\ UNCHANGED <<long_text, chunk_docs, ci, entities, pos, nents, all_entities,
                   all_contexts, first_seen, last_mention, ent>>
    /\ UNCHANGED notExtractVars

\* The first admitted mention of a (type, normalized key) is remembered.
note_first(seen, key, mention) ==
    IF key \in DOMAIN seen THEN seen
    ELSE [k \in DOMAIN seen \cup {key} |-> IF k = key THEN mention ELSE seen[k]]

\* One iteration of "for ent in doc.ents" (lines 102-131): the NER model
\* reports the next entity, a span after the previous one with some label.
NextEnt ==
    /\ epc = "ents"
    /\ nents < MaxEnts
    /\ \E span \in doc_of(ci).spans, label \in ner_labels :
         /\ span[1] >= pos
         /\ pos' = span[2]
         /\ nents' = nents + 1
         /\ LET original_text   == clean_entity_text(span_text(doc_of(ci), span[1], span[2]))
                normalized_text == normalize_entity(original_text)
                matches         == existing_matches(entities, label, normalized_text)
                context         == get_context(doc_of(ci), span[1], span[2], window)
            IN /\ ent' = <<label, original_text>>
               /\ IF admitted(label, original_text)
                  THEN \E entity_tuple \in
                            (IF matches # {} THEN matches ELSE {<<label, original_text>>}) :
                         /\ all_contexts' = store_context(all_contexts, entity_tuple, context)
                         /\ entities' = entities \cup {entity_tuple}
                         /\ first_seen' = note_first(first_seen, <<label, normalized_text>>,
                                             [name |-> original_text, context |-> context,
                                              chunk |-> ci])
                         /\ last_mention' = [record |-> entity_tuple, context |-> context,
                                             name |-> original_text, chunk |-> ci]
                  ELSE UNCHANGED <<all_contexts, entities, first_seen, last_mention>>
    /\ UNCHANGED <<long_text, chunk_docs, ci, epc, all_entities, ner_failed>>
    /\ UNCHANGED notExtractVars

\* process_chunk returns (line 133); extract_entities merges the chunk's set
\* into all_entities (line 148) or, for a single span, takes it (line 150),
\* and goes on to the next chunk or returns (line 152).
ChunkDone ==
    /\ epc = "ents"
    /\ all_entities' = IF long_text THEN all_entities \cup entities ELSE entities
    /\ IF ci < Len(chunk_docs)
       THEN ci' = ci + 1 /\ epc' = "ner"
       ELSE ci' = ci /\ epc' = "done"
    /\ UNCHANGED <<long_text, chunk_docs, entities, pos, nents, all_contexts,
                   first_seen, last_mention, ent, ner_failed>>
    /\ UNCHANGED notExtractVars

ExtractNext == NerReturns \/ NerRaises \/ NextEnt \/ ChunkDone

SpecExtract == ExtractInit /\ [][ExtractNext]_vars

\* The (type, normalized key) of a record <<type, display name>>.
key_of(r) == <<r[1], normalize_entity(r[2])>>

\* C1 (dedup uniqueness): when extract_entities has returned, whether the
\* document was one span or several chunks, no two records of the returned
\* entity set share the same (type, normalize(display_name)).
C1_NoTwoRecordsShareKey ==
    epc = "done" =>
        \A r1 \in all_entities : \A r2 \in all_entities :
            key_of(r1) = key_of(r2) => r1 = r2

\* C2 (first-seen wins across the document): when extract_entities has
\* returned, every record, and every entry of the context cache, carries the
\* display name and the context of the earliest admitted mention of its
\* (type, normalized key); a later mention of the pair adds no other name
\* and no other context.
C2_FirstSeenWins ==
    epc = "done" =>
        /\ \A r \in all_entities \cup DOMAIN all_contexts :
              /\ key_of(r) \in DOMAIN first_seen
              /\ r[2] = first_seen[key_of(r)].name
        /\ \A r \in DOMAIN all_contexts :
              all_contexts[r] = first_seen[key_of(r)].context

\* C3 (first-context stability): a context stored in the cache for a record
\* is never changed or removed by a later step, in the same chunk or in a
\* later one; an entry is added only for the record of the mention being
\* processed, with that mention's context.
C3_FirstContextStable ==
    [][ /\ \A k \in DOMAIN all_contexts :
             k \in DOMAIN all_contexts' /\ all_contexts'[k] = all_contexts[k]
        /\ \A k \in DOMAIN all_contexts' \ DOMAIN all_contexts :
             /\ k = last_mention'.record
             /\ all_contexts'[k] = last_mention'.context ]_vars

\* A later mention of a stored record arrived with another context, from a
\* second chunk, and the stored context is still the first one.
C3_Witness ==
    /\ last_mention # <<>>
    /\ last_mention.chunk = 2
    /\ last_mention.record \in DOMAIN all_contexts
    /\ all_contexts[last_mention.record] # last_mention.context
    /\ all_contexts[last_mention.record] = first_seen[key_of(last_mention.record)].context

\* C6 (an NER failure is not fatal): when nlp() raises on a chunk of a
\* chunked document, extract_entities does not abort but goes on with the
\* remaining chunks and returns the records of the chunks that did not fail.
C6_NerFailureNotFatal ==
    (long_text /\ ner_failed # {}) => epc # "raised"

\* --------------------------------------------------------- EntityAggregator
S_NORMALIZED_NAME == <<"N", "o", "r", "m", "a", "l", "i", "z", "e", "d", " ", "N", "a", "m",
      "e">>

\* A DataFrame is its column names and its rows of cells.  The position of
\* a column, and df[name] as the list of the column's cells.
column_index(df, name) == CHOOSE i \in 1..Len(df.columns) : df.columns[i] = name
column(df, name) == [i \in 1..Len(df.rows) |-> df.rows[i][column_index(df, name)]]

\* df[name] = values: the column is replaced where it exists and appended
\* where it does not (entity_aggregator.py:74-75).
set_column(df, name, values) ==
    IF name \in Range(df.columns)
    THEN [columns |-> df.columns,
          rows    |-> [i \in 1..Len(df.rows) |->
                          [df.rows[i] EXCEPT ![column_index(df, name)] = values[i]]]]
    ELSE [columns |-> Append(df.columns, name),
          rows    |-> [i \in 1..Len(df.rows) |-> Append(df.rows[i], values[i])]]

\* process_entity_file (entity_aggregator.py:58-83) on the file at path in
\* the file system fs: the table with its document reference and its
\* normalized names, or None (no table, or the KeyError of a table without
\* an Entity Name column, which the except clause turns into None).
process_entity_file(fs, path) ==
    LET df == parse_entity_table(fs[path])
    IN IF df = None THEN None
       ELSE IF S_ENTITY_NAME \notin Range(df.columns) THEN None
       ELSE LET names == column(df, S_ENTITY_NAME)
                with_doc == set_column(df, S_DOCUMENTS,
                                       [i \in 1..Len(df.rows) |-> path[2]])
            IN set_column(with_doc, S_NORMALIZED_NAME,
                          [i \in 1..Len(names) |-> normalize_entity(names[i])])

\* pd.concat(dfs, ignore_index=True) as the list of the rows, each a
\* mapping from column name to cell (entity_aggregator.py:109).
RECURSIVE concat(_)
concat(dfs) ==
    IF dfs = <<>> THEN <<>>
    ELSE LET df == Head(dfs)
         IN [i \in 1..Len(df.rows) |->
                [c \in Range(df.columns) |-> df.rows[i][column_index(df, c)]]]
              \o concat(Tail(dfs))

\* The key combined_df is grouped by (entity_aggregator.py:113).
group_key_raw(row) == <<row[S_ENTITY_TYPE], row[S_ENTITY_NAME]>>

group_key(row) == <<row[S_ENTITY_TYPE], row[S_NORMALIZED_NAME]>>

\* The aggregation 'first' over the cells of a group; none of them is null
\* (entity_aggregator.py:114-115).
agg_last(x) == x[Len(x)]

agg_first(x) == x[1]

\* lambda x: sorted(list(set(x))) (entity_aggregator.py:116)
agg_documents_list(x) == x

agg_documents_first(x) == <<x[1]>>

agg_documents(x) == sorted_strs(Range(x))

\* The rows of a group, in the order of combined_df.
group_rows(combined, key) ==
    LET in_group(row) == group_key(row) = key
    IN SelectSeq(combined, in_group)

cells_of(rows, name) == [i \in 1..Len(rows) |-> rows[i][name]]

\* The grouping of aggregate_entities (entity_aggregator.py:108-123) over
\* the tables read, in the order read: one row per group, the groups in
\* ascending order of their keys, the columns reordered.
aggregate_frames(dfs) ==
    LET combined == concat(dfs)
        keys     == sorted_pairs({group_key(combined[i]) : i \in 1..Len(combined)})
    IN [columns |-> <<S_ENTITY_TYPE, S_ENTITY_NAME, S_FIRST_CONTEXT, S_DOCUMENTS>>,
        rows    |-> [k \in 1..Len(keys) |->
                       LET rows == group_rows(combined, keys[k])
                       IN <<keys[k][1],
                            agg_first(cells_of(rows, S_ENTITY_NAME)),
                            agg_first(cells_of(rows, S_FIRST_CONTEXT)),
                            agg_documents(cells_of(rows, S_DOCUMENTS))>>]]

\* The tables process_entity_file returns for the files of a list, the
\* None ones left out (entity_aggregator.py:98-102).
RECURSIVE read_frames_abort(_, _)
read_frames_abort(fs, paths) ==
    IF paths = <<>> THEN <<>>
    ELSE LET df == process_entity_file(fs, Head(paths))
         IN IF df = None THEN <<>> ELSE <<df>> \o read_frames_abort(fs, Tail(paths))

RECURSIVE read_frames(_, _)
read_frames(fs, paths) ==
    IF paths = <<>> THEN <<>>
    ELSE LET df == process_entity_file(fs, Head(paths))
         IN (IF df = None THEN <<>> ELSE <<df>>) \o read_frames(fs, Tail(paths))

\* aggregated_data after aggregate_entities (entity_aggregator.py:85-125)
\* when find_entity_files returned paths: the two early returns leave the
\* attribute as it was.
aggregate_entities(data, fs, paths) ==
    IF paths = <<>> THEN data
    ELSE LET dfs == read_frames(fs, paths)
         IN IF dfs = <<>> THEN data ELSE aggregate_frames(dfs)

\* format_entity_table (formatter.py:5-43) on an aggregated table, whose
\* Documents cells are the lists agg_documents builds: such a cell is
\* joined with ", ", any other is written as it is.
format_cell(col, value) ==
    IF col = S_DOCUMENTS THEN join(<<",", " ">>, value) ELSE value

format_row(columns, row) ==
    <<"|", " ">>
      \o join(<<" ", "|", " ">>, [i \in 1..Len(columns) |-> format_cell(columns[i], row[i])])
      \o <<" ", "|", "\n">>

format_entity_table(df) ==
    IF df.rows = <<>> \/ df.columns = <<>> THEN S_NO_ENTITIES
    ELSE <<"|", " ">> \o join(<<" ", "|", " ">>, df.columns) \o <<" ", "|", "\n">>
           \o <<"|">> \o join(<<"|">>, [i \in 1..Len(df.columns) |-> <<"-", "-", "-">>])
           \o <<"|", "\n">>
           \o Concat([i \in 1..Len(df.rows) |-> format_row(df.columns, df.rows[i])])

\* ------------------------------------------------ the metadata directory
\* The directories os.walk visits, top-down: metadata_dir and a
\* sub-directory of it.
Directories == <<".", "d1">>

F_A == <<"a", "_", "e", "n", "t", "i", "t", "i", "e", "s", ".", "m", "d">>
F_B == <<"b", "_", "e", "n", "t", "i", "t", "i", "e", "s", ".", "m", "d">>
F_NOTES == <<"n", "o", "t", "e", "s", ".", "m", "d">>
F_AGGREGATED == <<"a", "g", "g", "r", "e", "g", "a", "t", "e", "d", "_", "e", "n", "t",
      "i", "t", "i", "e", "s", ".", "m", "d">>

\* The places of the document tables: process_filings.py writes one
\* <document>_entities.md per document, and documents of different
\* sub-directories may share their name.
TablePaths == {<<".", F_A>>, <<"d1", F_A>>, <<"d1", F_B>>}
NotesPath == <<".", F_NOTES>>

\* The per-document results the tables on disk are written from: names
\* that differ in case and corporate suffix, one name under two types, a
\* document that repeats a key, and a document without entities.
N_ACME_INC == <<"A", "c", "m", "e", " ", "I", "n", "c">>
N_ACME_UPPER == <<"A", "C", "M", "E">>
N_ACME == <<"A", "c", "m", "e">>
N_BOB == <<"B", "o", "b">>

Results ==
    << [ents     |-> {<<L_ORG, N_ACME_INC>>, <<L_PERSON, N_BOB>>},
        contexts |-> (<<L_ORG, N_ACME_INC>> :> <<"c", "1">>)
                        @@ (<<L_PERSON, N_BOB>> :> <<"c", "2">>)],
       [ents     |-> {<<L_ORG, N_ACME_UPPER>>, <<L_ORG, N_ACME>>},
        contexts |-> (<<L_ORG, N_ACME_UPPER>> :> <<"c", "3">>)
                        @@ (<<L_ORG, N_ACME>> :> <<"c", "4">>)],
       [ents     |-> {<<L_PERSON, N_ACME>>},
        contexts |-> (<<L_PERSON, N_ACME>> :> <<"c", "5">>)],
       [ents     |-> {},
        contexts |-> <<>>] >>

\* A file that holds a table without the Entity Name column: it has the
\* header parse_entity_table looks for, and process_entity_file fails on it.
NamelessTable == <<"|", " ", "E", "n", "t", "i", "t", "y", " ", "T", "y", "p", "e", " ",
      "|", " ", "N", "a", "m", "e", " ", "|", "\n", "|", "-", "-", "-", "|",
      "-", "-", "-", "|", "\n", "|", " ", "O", "R", "G", " ", "|", " ", "A",
      "c", "m", "e", " ", "|", "\n">>

\* The files export_results writes for the results (extractor.py:169-184),
\* and the one no part of the pipeline wrote.
FileTexts ==
    {format_markdown_table(r.ents, r.contexts) : r \in Range(Results)}
      \cup {NamelessTable}

\* The content of the file that is no entity file: a table all the same.
NotesText == format_markdown_table(Results[1].ents, Results[1].contexts)

\* ------------------------------------------------------ find_entity_files
RECURSIVE Perms(_)
Perms(S) ==
    IF S = {} THEN {<<>>}
    ELSE UNION {{<<x>> \o p : p \in Perms(S \ {x})} : x \in S}

\* The files of a directory the filter of find_entity_files keeps
\* (entity_aggregator.py:42-47).
entity_files_in(fs, dir) ==
    {p \in DOMAIN fs : p[1] = dir /\ EndsWith(p[2], S_ENTITIES_SUFFIX)}

\* The lists find_entity_files can return (entity_aggregator.py:29-56):
\* os.walk yields the files of metadata_dir before those of the
\* sub-directory, and the files of one directory in any order.
RECURSIVE walk(_, _)
walk(fs, dirs) ==
    IF dirs = <<>> THEN {<<>>}
    ELSE {a \o b : a \in Perms(entity_files_in(fs, Head(dirs))),
                   b \in walk(fs, Tail(dirs))}

find_entity_files(fs) == walk(fs, Directories)

\* --------------------------------------------------------------- actions
\* EntityAggregator(metadata_dir) over a directory holding any of the
\* document tables and a file that is no entity file.
AggInit ==
    /\ \E present \in SUBSET TablePaths :
         \E fs \in [present -> FileTexts] :
           files = [p \in present \cup {NotesPath} |->
                      IF p = NotesPath THEN NotesText ELSE fs[p]]
    /\ aggregated_data = None
    /\ apc = "ready"
    /\ calls = 0
    /\ entity_files = <<>>
    /\ frames_read = <<>>
    /\ OthersIdle("agg")

\* aggregate_entities() (entity_aggregator.py:85-125)
Aggregate ==
    /\ apc # "idle"
    /\ calls < MaxCalls
    /\ \E paths \in find_entity_files(files) :
         /\ aggregated_data' = aggregate_entities(aggregated_data, files, paths)
         /\ entity_files' = paths
         /\ frames_read' = [p \in Range(paths) |-> process_entity_file(files, p)]
    /\ calls' = calls + 1
    /\ apc' = "aggregated"
    /\ UNCHANGED files
    /\ UNCHANGED notAggVars

\* save_aggregated_table(output_file) (entity_aggregator.py:127-143) with
\* the output file of aggregator_test.py, metadata_dir/aggregated_entities.md;
\* without aggregated data the method returns and writes nothing.
Save ==
    /\ apc # "idle"
    /\ aggregated_data # None
    /\ LET markdown == format_entity_table(aggregated_data)
           path == <<".", F_AGGREGATED>>
       IN files' = [p \in DOMAIN files \cup {path} |->
                       IF p = path THEN markdown ELSE files[p]]
    /\ UNCHANGED <<aggregated_data, apc, calls, entity_files, frames_read>>
    /\ UNCHANGED notAggVars

AggNext == Aggregate \/ Save

SpecAgg == AggInit /\ [][AggNext]_vars

\* ------------------------------------------------- aggregation properties
\* The last call read at least one document table and grouped what it read.
is_readable(p) == frames_read[p] # None

Grouped ==
    /\ apc = "aggregated"
    /\ \E d \in 1..Len(entity_files) : is_readable(entity_files[d])

\* (Entity Type, normalize(Entity Name))
record_key(type, name) == <<type, normalize_entity(name)>>

\* The records of a document table from its row i on, each with its key.
RECURSIVE records_from(_, _)
records_from(df, i) ==
    IF i > Len(df.rows) THEN <<>>
    ELSE LET type == df.rows[i][column_index(df, S_ENTITY_TYPE)]
             name == df.rows[i][column_index(df, S_ENTITY_NAME)]
         IN <<[type    |-> type,
               name    |-> name,
               context |-> df.rows[i][column_index(df, S_FIRST_CONTEXT)],
               key     |-> record_key(type, name)]>>
              \o records_from(df, i + 1)

\* The document tables a call read (the unreadable files left out), in the
\* order it was given them: the document id and the records of each.
RECURSIVE documents_read(_)
documents_read(paths) ==
    IF paths = <<>> THEN <<>>
    ELSE (IF is_readable(Head(paths))
          THEN <<[id      |-> Head(paths)[2],
                  records |-> records_from(frames_read[Head(paths)], 1)]>>
          ELSE <<>>)
           \o documents_read(Tail(paths))

keys_of(doc) == {doc.records[i].key : i \in 1..Len(doc.records)}

\* The records of an aggregated table from its row i on, each with its key.
RECURSIVE aggregated_from(_, _)
aggregated_from(df, i) ==
    IF i > Len(df.rows) THEN <<>>
    ELSE <<[type      |-> df.rows[i][1],
            name      |-> df.rows[i][2],
            context   |-> df.rows[i][3],
            documents |-> df.rows[i][4],
            key       |-> record_key(df.rows[i][1], df.rows[i][2])]>>
           \o aggregated_from(df, i + 1)

\* C7: the aggregated table of a corpus of readable document tables holds
\* exactly one record for each (Entity Type, normalize(Entity Name)) pair
\* that occurs in an input table, and no record for any other pair.
C7_KeysCompleteAndUnique ==
    Grouped =>
      LET docs == documents_read(entity_files)
          out  == aggregated_from(aggregated_data, 1)
      IN /\ {out[i].key : i \in 1..Len(out)}
               = UNION {keys_of(docs[d]) : d \in 1..Len(docs)}
         /\ \A i \in 1..Len(out) : \A j \in 1..Len(out) :
               out[i].key = out[j].key => i = j

\* Two documents give one key under different names, next to other keys.
C7_Witness ==
    /\ Grouped
    /\ LET docs == documents_read(entity_files)
       IN /\ Cardinality(UNION {keys_of(docs[d]) : d \in 1..Len(docs)}) >= 2
          /\ \E d \in 1..Len(docs) : \E e \in 1..Len(docs) :
               /\ d # e
               /\ \E i \in 1..Len(docs[d].records) : \E j \in 1..Len(docs[e].records) :
                    /\ docs[d].records[i].key = docs[e].records[j].key
                    /\ docs[d].records[i].name # docs[e].records[j].name

\* The first document of the list that holds the key k, and the first
\* record of that document that carries it.
first_document(docs, k) ==
    CHOOSE d \in 1..Len(docs) :
      /\ k \in keys_of(docs[d])
      /\ \A e \in 1..(d - 1) : k \notin keys_of(docs[e])

first_record(docs, k) ==
    LET recs == docs[first_document(docs, k)].records
        j    == CHOOSE j \in 1..Len(recs) :
                  /\ recs[j].key = k
                  /\ \A h \in 1..(j - 1) : recs[h].key # k
    IN recs[j]

\* C8: the display name and the first context of an aggregated record are
\* both those of one input record: the first record carrying the key in
\* the first document, in the order supplied, that contributed the key.
C8_FirstDocumentWins ==
    Grouped =>
      LET docs == documents_read(entity_files)
          out  == aggregated_from(aggregated_data, 1)
      IN \A i \in 1..Len(out) :
           LET first == first_record(docs, out[i].key)
           IN out[i].name = first.name /\ out[i].context = first.context

\* A key of two documents, the later one naming it differently and with
\* another context, and the record carries the first document's.
C8_Witness ==
    /\ Grouped
    /\ LET docs == documents_read(entity_files)
           out  == aggregated_from(aggregated_data, 1)
       IN \E i \in 1..Len(out) :
            \E d \in (first_document(docs, out[i].key) + 1)..Len(docs) :
              \E j \in 1..Len(docs[d].records) :
                LET q == docs[d].records[j]
                IN /\ q.key = out[i].key
                   /\ q.name # out[i].name
                   /\ q.context # out[i].context
                   /\ out[i].name = first_record(docs, out[i].key).name

\* The ids of the documents that hold the key k.
contributors(docs, k) ==
    {docs[d].id : d \in {e \in 1..Len(docs) : k \in keys_of(docs[e])}}

\* C9: the Documents of an aggregated record are exactly the document ids
\* (file names) of the input tables that hold a record with its key, each
\* once, in ascending order.
C9_SourceDocuments ==
    Grouped =>
      LET docs == documents_read(entity_files)
          out  == aggregated_from(aggregated_data, 1)
      IN \A i \in 1..Len(out) :
           LET ids == out[i].documents
           IN /\ Range(ids) = contributors(docs, out[i].key)
              /\ \A a \in 1..Len(ids) : \A b \in 1..Len(ids) :
                   a < b => str_lt(ids[a], ids[b])

\* A record of two documents that were read in descending order of their
\* ids, one of them holding the key twice.
C9_Witness ==
    /\ Grouped
    /\ LET docs == documents_read(entity_files)
           out  == aggregated_from(aggregated_data, 1)
       IN \E i \in 1..Len(out) :
            /\ Len(out[i].documents) >= 2
            /\ \E d \in 1..Len(docs) : \E e \in 1..Len(docs) :
                 /\ d < e
                 /\ out[i].key \in keys_of(docs[d])
                 /\ out[i].key \in keys_of(docs[e])
                 /\ str_lt(docs[e].id, docs[d].id)
            /\ \E d \in 1..Len(docs) :
                 \E a \in 1..Len(docs[d].records) : \E b \in 1..Len(docs[d].records) :
                   /\ a # b
                   /\ docs[d].records[a].key = out[i].key
                   /\ docs[d].records[b].key = out[i].key

\* The keys of an aggregated table, each with the set of its documents.
keys_and_documents(out) ==
    {<<out[i].key, Range(out[i].documents)>> : i \in 1..Len(out)}

\* The aggregated table of the tables of the last call read in the order o.
aggregated_in(o) ==
    LET read == SelectSeq(o, is_readable)
    IN aggregate_frames([d \in 1..Len(read) |-> frames_read[read[d]]])

\* C10: whatever the order the same document tables are supplied in, the
\* aggregated table has the same keys and, for each key, the same set of
\* documents.
C10_OrderIndependent ==
    Grouped =>
      LET result == keys_and_documents(aggregated_from(aggregated_data, 1))
      IN \A o \in Perms(Range(entity_files)) :
           keys_and_documents(aggregated_from(aggregated_in(o), 1)) = result

\* Three tables, a record of two documents, and another order of the same
\* tables names a record differently.
C10_Witness ==
    /\ Grouped
    /\ Len(SelectSeq(entity_files, is_readable)) >= 3
    /\ \E i \in 1..Len(aggregated_data.rows) : Len(aggregated_data.rows[i][4]) >= 2
    /\ \E o \in Perms(Range(entity_files)) :
         /\ aggregated_in(o) # aggregated_data
         /\ keys_and_documents(aggregated_from(aggregated_in(o), 1))
              = keys_and_documents(aggregated_from(aggregated_data, 1))

\* ------------------------------------------ per-document table round trip
\* Display names and contexts of the results written: plain ones and ones
\* with the cell separator in them, as the text of a filing may hold.
N_PIPE == <<"A", "|", "B">>
X_PLAIN == <<"c", "1">>
X_PIPE == <<"a", " ", "|", " ", "b">>

CodecNames == {N_ACME, N_BOB, N_PIPE}
CodecContexts == {X_PLAIN, X_PIPE}

\* The results extract_entities can return with at most MaxRecords records:
\* every name is a cleaned, admitted text (extractor.py:103-108), every
\* context is whitespace-collapsed (extractor.py:71) and every record has
\* its context (extractor.py:126-131).
CodecResults ==
    LET pairs == {e \in {L_ORG, L_PERSON} \X CodecNames :
                    clean_entity_text(e[2]) = e[2] /\ admitted(e[1], e[2])}
        texts == {x \in CodecContexts : collapse_spaces(x) = x}
    IN UNION {{[ents |-> ents, contexts |-> c] : c \in [ents -> texts]} :
                 ents \in {E \in SUBSET pairs : Cardinality(E) <= MaxRecords}}

CodecInit ==
    /\ table \in CodecResults
    /\ table_file = <<>>
    /\ decoded = None
    /\ kpc = "result"
    /\ OthersIdle("codec")

\* export_results (extractor.py:169-177)
ExportResults ==
    /\ kpc = "result"
    /\ table_file' = format_markdown_table(table.ents, table.contexts)
    /\ kpc' = "written"
    /\ UNCHANGED <<table, decoded>>
    /\ UNCHANGED notCodecVars

\* parse_entity_table on the file written (parser.py:6-46)
ParseTable ==
    /\ kpc = "written"
    /\ decoded' = parse_entity_table(table_file)
    /\ kpc' = "parsed"
    /\ UNCHANGED <<table, table_file>>
    /\ UNCHANGED notCodecVars

CodecNext == ExportResults \/ ParseTable

SpecCodec == CodecInit /\ [][CodecNext]_vars

\* The records of a result as rows of cells.
rows_of(t) == {<<e[1], e[2], t.contexts[e]>> : e \in t.ents}

\* C11: decoding the text format_markdown_table produced for a document's
\* table, of zero or more records, gives exactly the records of the table,
\* with the same type, name and context.
C11_DocumentTableRoundTrip ==
    kpc = "parsed" =>
      /\ decoded # None
      /\ decoded.columns = <<S_ENTITY_TYPE, S_ENTITY_NAME, S_FIRST_CONTEXT>>
      /\ Len(decoded.rows) = Cardinality(table.ents)
      /\ Range(decoded.rows) = rows_of(table)

\* ---------------------------------------------- aggregated table round trip
\* The file save_aggregated_table wrote holds the aggregated table.
AggregateSaved ==
    /\ aggregated_data # None
    /\ <<".", F_AGGREGATED>> \in DOMAIN files
    /\ files[<<".", F_AGGREGATED>>] = format_entity_table(aggregated_data)

\* The document ids a decoded Documents cell stands for: parse_entity_table
\* leaves the cell one string (parser.py:36), a collection of one id.
source_documents(cell) == <<cell>>

\* C12: decoding the text format_entity_table produced for an aggregated
\* table gives back, for every record, the sorted collection of document
\* ids that was encoded.
C12_AggregatedTableRoundTrip ==
    AggregateSaved =>
      LET back == parse_entity_table(files[<<".", F_AGGREGATED>>])
      IN /\ back # None
         /\ Len(back.rows) = Len(aggregated_data.rows)
         /\ \A i \in 1..Len(back.rows) :
              source_documents(back.rows[i][column_index(back, S_DOCUMENTS)])
                = aggregated_data.rows[i][4]

\* ------------------------------------------------------ unreadable tables
\* The call met a file it could not read as a table, and read a table
\* after it.
SkippedOne ==
    /\ apc = "aggregated"
    /\ \E d \in 1..Len(entity_files) : \E e \in 1..Len(entity_files) :
         d < e /\ ~is_readable(entity_files[d]) /\ is_readable(entity_files[e])

\* C13: a file that fails to decode does not abort aggregation: the call
\* returns, the file is skipped, and the result is that of aggregating, in
\* the same order, the tables that decode alone.
C13_UnreadableSkipped ==
    (/\ apc = "aggregated"
     /\ \E p \in Range(entity_files) : ~is_readable(p)
     /\ \E p \in Range(entity_files) : is_readable(p))
      => aggregated_data = aggregated_in(entity_files)

\* Such a call, with a file without a header and a file without the
\* Entity Name column among those it met.
C13_Witness ==
    /\ SkippedOne
    /\ aggregated_data # None
    /\ \E p \in Range(entity_files) : files[p] = S_NO_ENTITIES
    /\ \E p \in Range(entity_files) : files[p] = NamelessTable

\* ------------------------------------------- a directory that changes
\* Between two calls a file of metadata_dir is removed: the aggregator
\* reads the directory anew in every call (entity_aggregator.py:40).
Unlink ==
    /\ apc # "idle"
    /\ calls < MaxCalls
    /\ \E gone \in DOMAIN files :
         files' = [p \in DOMAIN files \ {gone} |-> files[p]]
    /\ UNCHANGED <<aggregated_data, apc, calls, entity_files, frames_read>>
    /\ UNCHANGED notAggVars

AggEnvNext == Aggregate \/ Save \/ Unlink

SpecAggEnv == AggInit /\ [][AggEnvNext]_vars

\* get_entity_type_counts() (entity_aggregator.py:145-149): the number of
\* rows of each Entity Type, {} without aggregated data.
get_entity_type_counts(data) ==
    IF data = None THEN <<>>
    ELSE LET types == column(data, S_ENTITY_TYPE)
         IN [t \in Range(types) |-> Cardinality({i \in 1..Len(types) : types[i] = t})]

\* get_entities_by_type(entity_type) (entity_aggregator.py:151-163): the
\* rows of the type, an empty DataFrame without aggregated data.
get_entities_by_type(data, entity_type) ==
    IF data = None THEN [columns |-> <<>>, rows |-> <<>>]
    ELSE LET of_type(row) == row[column_index(data, S_ENTITY_TYPE)] = entity_type
         IN [columns |-> data.columns, rows |-> SelectSeq(data.rows, of_type)]

\* The last call found no file it could read as a table.
NoneReadable ==
    /\ apc = "aggregated"
    /\ \A p \in Range(entity_files) : ~is_readable(p)

\* C14: when no document table is readable, aggregate_entities returns and
\* the aggregated result is empty: no type has a count and no type has
\* rows.
C14_NoTablesGivesEmpty ==
    NoneReadable =>
      /\ DOMAIN get_entity_type_counts(aggregated_data) = {}
      /\ \A t \in target_types :
           get_entities_by_type(aggregated_data, t).rows = <<>>

\* ----------------------------------------------------- process_sec_filings
S_TXT == <<".", "t", "x", "t">>
F_A_TXT == <<"a", ".", "t", "x", "t">>
F_B_TXT == <<"b", ".", "t", "x", "t">>
F_A_PDF == <<"a", ".", "p", "d", "f">>

\* The files of the inbox, <<company, filing type, file name>>: two
\* filings of one company, a filing of another under the same file name,
\* and a file that is no .txt.
Inbox ==
    {<<"c1", "10-K", F_A_TXT>>, <<"c1", "10-K", F_B_TXT>>, <<"c1", "10-K", F_A_PDF>>,
     <<"c2", "10-K", F_A_TXT>>}

Companies == {"c1", "c2"}

\* os.path.splitext(file_name)[0]: the name up to its last dot, when a
\* character other than a dot precedes that dot.
splitext_root(file_name) ==
    LET dot == rfind(file_name, <<".">>)
    IN IF dot > 0 /\ \E i \in 1..dot : file_name[i] # "."
       THEN PySlice(file_name, 0, dot)
       ELSE file_name

\* output_file of a document (process_filings.py:64-65)
output_file(doc) == <<doc[1], doc[2], splitext_root(doc[3]) \o S_ENTITIES_SUFFIX>>

\* should_process_file(output_file) (extractor.py:186-188)
should_process_always(outs, path) == TRUE

should_process_file(outs, path) == path \notin DOMAIN outs

\* The orders the nested os.listdir loops can visit the inbox in: the
\* companies in any order, the files of each in any order
\* (process_filings.py:41-57).
RECURSIVE listings(_)
listings(companies) ==
    IF companies = <<>> THEN {<<>>}
    ELSE {a \o b : a \in Perms({d \in Inbox : d[1] = Head(companies)}),
                   b \in listings(Tail(companies))}

\* What extract_entities and export_results can leave in an output file:
\* the table of a result, or the line written for no entities.
OutputTexts == {format_markdown_table(Results[i].ents, Results[i].contexts) : i \in {1, 4}}

\* Before the first run any of the output files may exist.
FilingInit ==
    /\ \E present \in SUBSET {output_file(d) : d \in {e \in Inbox : EndsWith(e[3], S_TXT)}} :
         outputs \in [present -> OutputTexts]
    /\ todo = <<>>
    /\ total_files = 0
    /\ processed_files = 0
    /\ skipped_files = 0
    /\ fpc = "idle"
    /\ runs = 0
    /\ extracted = {}
    /\ written = {}
    /\ complete_before = FALSE
    /\ OthersIdle("filing")

\* process_sec_filings() up to its loops (process_filings.py:15-41)
StartRun ==
    /\ fpc # "running"
    /\ runs < MaxRuns
    /\ \E order \in Perms(Companies) : todo' \in listings(order)
    /\ total_files' = Cardinality({d \in Inbox : EndsWith(d[3], S_TXT)})
    /\ processed_files' = 0
    /\ skipped_files' = 0
    /\ fpc' = "running"
    /\ runs' = runs + 1
    /\ extracted' = {}
    /\ complete_before' = (complete_before \/ fpc = "complete")
    /\ UNCHANGED <<outputs, written>>
    /\ UNCHANGED notFilingVars

\* One pass of the innermost loop in which extract_entities returns
\* (process_filings.py:57-93).
VisitFile ==
    /\ fpc = "running"
    /\ todo # <<>>
    /\ LET doc == Head(todo)
       IN IF ~EndsWith(doc[3], S_TXT)
          THEN UNCHANGED <<outputs, processed_files, skipped_files, extracted, written>>
          ELSE IF ~should_process_file(outputs, output_file(doc))
          THEN /\ skipped_files' = skipped_files + 1
               /\ processed_files' = processed_files + 1
               /\ UNCHANGED <<outputs, extracted, written>>
          ELSE /\ \E content \in OutputTexts :
                    outputs' = [o \in DOMAIN outputs \cup {output_file(doc)} |->
                                  IF o = output_file(doc) THEN content ELSE outputs[o]]
               /\ processed_files' = processed_files + 1
               /\ extracted' = extracted \cup {doc}
               /\ written' = written \cup {doc}
               /\ UNCHANGED skipped_files
    /\ todo' = Tail(todo)
    /\ UNCHANGED <<total_files, fpc, runs, complete_before>>
    /\ UNCHANGED notFilingVars

\* The pass in which load_document or extract_entities raises: nothing
\* catches the exception and the run ends (process_filings.py:78-81).
VisitRaises ==
    /\ fpc = "running"
    /\ todo # <<>>
    /\ EndsWith(Head(todo)[3], S_TXT)
    /\ should_process_file(outputs, output_file(Head(todo)))
    /\ fpc' = "raised"
    /\ extracted' = extracted \cup {Head(todo)}
    /\ UNCHANGED <<todo, outputs, total_files, processed_files, skipped_files, runs,
                   written, complete_before>>
    /\ UNCHANGED notFilingVars

\* The end of the loops (process_filings.py:95-102)
FinishRun ==
    /\ fpc = "running"
    /\ todo = <<>>
    /\ fpc' = "complete"
    /\ UNCHANGED <<todo, outputs, total_files, processed_files, skipped_files, runs,
                   extracted, written, complete_before>>
    /\ UNCHANGED notFilingVars

FilingNext == StartRun \/ VisitFile \/ VisitRaises \/ FinishRun

SpecFiling == FilingInit /\ [][FilingNext]_vars

\* C15: a run never calls extract_entities for a document whose output
\* file exists and never changes an output file that exists; a run that
\* follows a run that ran to its end extracts nothing and counts every
\* document as skipped.
C15_Resumable ==
    [][/\ \A d \in extracted' \ extracted : output_file(d) \notin DOMAIN outputs
       /\ \A o \in DOMAIN outputs : o \in DOMAIN outputs' /\ outputs'[o] = outputs[o]
       /\ complete_before' => extracted' = {}
       /\ (fpc' = "complete" /\ complete_before') => skipped_files' = total_files']_vars

\* A run wrote outputs and ran to its end, and the run after it has ended
\* with every document skipped.
C15_Witness ==
    /\ fpc = "complete"
    /\ complete_before
    /\ written # {}
    /\ extracted = {}
    /\ skipped_files = total_files
    /\ total_files >= 2

\* ------------------------------------------- normalize_entity as called
\* The words names are made of: a name in two spellings, a corporate
\* suffix in two, with and without its period, and a possessive.
NormWords ==
    {<<"A", "c", "m", "e">>,
     <<"A", "C", "M", "E">>,
     <<"I", "n", "c">>,
     <<"i", "n", "c">>,
     <<"I", "n", "c", ".">>,
     <<"B", "o", "b", "'", "s">>}

\* The names given to normalize_entity: cleaned display names and stripped
\* table cells, so words separated by one blank (extractor.py:105-111,
\* entity_aggregator.py:75).
NormInputs ==
    {join(<<" ">>, ws) : ws \in UNION {[1..n -> NormWords] : n \in 1..MaxWords}}

\* The last blank-separated token of a name, in lower case.
last_token(s) == IF split(s) = <<>> THEN <<>> ELSE lower(split(s)[Len(split(s))])

\* A name without the period that follows its trailing corporate suffix.
without_suffix_period(s) ==
    IF s # <<>> /\ s[Len(s)] = "." /\ DropLast(last_token(s), 1) \in corporate_suffixes
    THEN DropLast(s, 1)
    ELSE s

\* Two names that differ at most in letter case and in the period after a
\* trailing corporate suffix.
SameButCaseAndPeriod(x, y) ==
    lower(without_suffix_period(x)) = lower(without_suffix_period(y))

NormInit ==
    /\ norm_x \in NormInputs
    /\ norm_y \in {y \in NormInputs : SameButCaseAndPeriod(norm_x, y)}
    /\ normalized = <<>>
    /\ npc = "start"
    /\ OthersIdle("norm")

\* normalize_entity(x) and normalize_entity(y) (processors.py:33-55)
Normalize ==
    /\ npc = "start"
    /\ normalized' = [x |-> normalize_entity(norm_x), y |-> normalize_entity(norm_y)]
    /\ npc' = "once"
    /\ UNCHANGED <<norm_x, norm_y>>
    /\ UNCHANGED notNormVars

\* normalize_entity applied to its own result
Renormalize ==
    /\ npc = "once"
    /\ normalized' = [x |-> normalized.x, y |-> normalized.y,
                      xx |-> normalize_entity(normalized.x)]
    /\ npc' = "twice"
    /\ UNCHANGED <<norm_x, norm_y>>
    /\ UNCHANGED notNormVars

\* entities_match(x, y) (processors.py:57-68)
Match ==
    /\ npc = "start"
    /\ normalized' = [match |-> entities_match(norm_x, norm_y)]
    /\ npc' = "matched"
    /\ UNCHANGED <<norm_x, norm_y>>
    /\ UNCHANGED notNormVars

NormNext == Normalize \/ Renormalize \/ Match

SpecNormalize == NormInit /\ [][NormNext]_vars

\* C16: normalizing a normalized name changes nothing:
\* normalize_entity(normalize_entity(X)) = normalize_entity(X), also for
\* names that end in more than one corporate suffix.
C16_NormalizeIdempotent ==
    npc = "twice" => normalized.xx = normalized.x

\* C17: two names that differ only in letter case, or only in the period
\* after a trailing corporate suffix, have the same normalize_entity
\* result, and entities_match holds for them.
C17_CaseAndPeriodInsensitive ==
    /\ npc = "once" => normalized.x = normalized.y
    /\ npc = "matched" => normalized.match

\* "Acme Inc." and "acme inc" were normalized: they differ in case and in
\* the period, and the result is not empty.
C17_Witness ==
    /\ npc = "once"
    /\ norm_x = <<"A", "c", "m", "e", " ", "I", "n", "c", ".">>
    /\ norm_y = <<"A", "C", "M", "E", " ", "i", "n", "c">>
    /\ normalized.x = <<"a", "c", "m", "e">>

\* ------------------------------------------------------ admissibility
\* A record <<type, display name>> whose type is a target type and whose
\* name is longer than one character and not all digits.
admissible(r) ==
    /\ r[1] \in {L_PERSON, L_ORG, L_GPE, L_LOC, L_PRODUCT, L_EVENT, L_FAC}
    /\ Len(r[2]) > 1
    /\ ~isdigit(r[2])

\* C18: every record of the entity sets and every key of the context cache
\* has a target type and a name longer than one character that is not all
\* digits, and the iteration over a mention that is not so changes neither
\* the entity sets nor the context cache.
C18_Admissibility ==
    /\ [](\A r \in entities \cup all_entities \cup DOMAIN all_contexts : admissible(r))
    /\ [][(nents' = nents + 1 /\ ~admissible(ent'))
            => /\ entities' = entities
               /\ all_entities' = all_entities
               /\ all_contexts' = all_contexts]_vars

\* A mention that is not admissible was iterated after a record was
\* stored, and extract_entities returned that record.
C18_Witness ==
    /\ epc = "done"
    /\ ent # <<>>
    /\ ~admissible(ent)
    /\ all_entities # {}
    /\ DOMAIN all_contexts # {}

\* ------------------------------------------------ chunk_text edge cases
\* C19: chunk_text called with overlap >= chunk_size reports a
\* configuration error to its caller before any chunk is produced: it
\* appends no chunk and does not return a list.
C19_InvalidConfigRejected ==
    overlap >= chunk_size => (chunks = <<>> /\ cpc # "returned")

\* C20: for a text with 0 <= len(text) < chunk_size, chunk_text returns
\* exactly one chunk, equal to the whole text.
C20_ShortTextOneChunk ==
    (cpc = "returned" /\ Len(text) < chunk_size) => chunks = <<text>>

\* The characters of the texts of the fair runs: a plain letter and the
\* marker of one character, which rfind can find at every index of the
\* search region.
FairAlphabet == {"a", "\n"}

\* The longest text of the fair runs.
MaxFairTextLen == MaxTextLen - 1

\* chunk_text is called: its arguments are bound and its locals set
\* (lines 41-44).
ChunkCall ==
    /\ cpc = "idle"
    /\ text' \in UNION {[1..n -> FairAlphabet] : n \in 0..MaxFairTextLen}
    /\ chunk_size' \in 1..MaxChunkSize
    /\ overlap' \in 0..MaxOverlap
    /\ start' = 0
    /\ chunks' = <<>>
    /\ cuts' = <<>>
    /\ cpc' = "loop"
    /\ UNCHANGED notChunkVars

ChunkFairInit == ChunkIdle /\ OthersIdle("chunk")

ChunkFairNext == ChunkCall \/ ChunkLoop \/ ChunkReturn

\* Once called, the function runs: the iteration or the return that is
\* possible is taken.
SpecChunkFair ==
    ChunkFairInit /\ [][ChunkFairNext]_vars /\ WF_vars(ChunkLoop \/ ChunkReturn)

\* C21: under a valid configuration chunk_text returns: every iteration
\* appends a chunk that is not empty and moves start strictly forward.
C21_Terminates ==
    /\ [][(ValidConfig /\ chunks' # chunks)
            => /\ start' > start
               /\ chunks'[Len(chunks')] # <<>>]_vars
    /\ ((cpc = "loop" /\ ValidConfig) ~> cpc = "returned")

\* chunk_text returned several chunks under a valid configuration, one of
\* them cut short of the naive boundary.
C21_Witness ==
    /\ cpc = "returned" /\ ValidConfig
    /\ Len(chunks) >= 2
    /\ \E i \in 1..Len(cuts) : cuts[i][2] < cuts[i][1] + chunk_size

\* ------------------------------------------- parse_entity_table on any file
\* The lines table files are made of here, each with the cells it holds
\* when read as a row: two rows of three cells, a row of two cells, a row
\* of four cells, a line of text and an empty line.
FileLines ==
    {[line  |-> <<"|", " ", "O", "R", "G", " ", "|", " ", "A", "c", "m", "e",
                 " ", "|", " ", "c", "1", " ", "|">>,
      cells |-> <<L_ORG, N_ACME, <<"c", "1">>>>],
     [line  |-> <<"|", " ", "P", "E", "R", "S", "O", "N", " ", "|", " ", "B",
                 "o", "b", " ", "|", " ", "c", "2", " ", "|">>,
      cells |-> <<L_PERSON, N_BOB, <<"c", "2">>>>],
     [line  |-> <<"|", " ", "O", "R", "G", " ", "|", " ", "A", "c", "m", "e",
                 " ", "|">>,
      cells |-> <<L_ORG, N_ACME>>],
     [line  |-> <<"|", " ", "O", "R", "G", " ", "|", " ", "A", "|", "B", " ",
                 "|", " ", "c", "3", " ", "|">>,
      cells |-> <<L_ORG, <<"A">>, <<"B">>, <<"c", "3">>>>],
     [line  |-> <<"n", "o", "t", "e", "s">>,
      cells |-> <<>>],
     [line  |-> <<>>,
      cells |-> <<>>]}

\* The text of a file of these lines: the lines joined by newlines.
file_text(ls) == join(<<"\n">>, [i \in 1..Len(ls) |-> ls[i].line])

\* A file: some lines of text, then, unless it holds no table, the header
\* row and the separator row as format_markdown_table writes them
\* (extractor.py:158-159), then up to MaxLines lines.
ParseInit ==
    /\ \E preamble \in {<<>>, <<[line |-> <<"n", "o", "t", "e", "s">>, cells |-> <<>>]>>},
          header \in BOOLEAN,
          body \in UNION {[1..n -> FileLines] : n \in 0..MaxLines} :
         /\ table = [preamble |-> preamble, header |-> header, body |-> body]
         /\ table_file =
              file_text(preamble
                        \o (IF header
                            THEN <<[line |-> DropLast(S_TABLE_HEADER, 1), cells |-> <<>>],
                                   [line |-> DropLast(S_TABLE_SEPARATOR, 1), cells |-> <<>>]>>
                            ELSE <<>>)
                        \o body)
    /\ decoded = None
    /\ kpc = "written"
    /\ OthersIdle("codec")

\* process_entity_file on the file (entity_aggregator.py:58-83)
ProcessEntityFile ==
    /\ kpc = "written"
    /\ decoded' = process_entity_file((<<".", F_A>> :> table_file), <<".", F_A>>)
    /\ kpc' = "processed"
    /\ UNCHANGED <<table, table_file>>
    /\ UNCHANGED notCodecVars

ParseNext == ParseTable \/ ProcessEntityFile

SpecParse == ParseInit /\ [][ParseNext]_vars

\* The file holds the header row and the separator row and no data row.
HeaderOnly == table.header /\ table.body = <<>>

\* C22: a file with the header row and the separator row and no data row
\* decodes to a table of no rows, not to None, and process_entity_file
\* returns a table for it too.
C22_HeaderOnlyDecodesEmpty ==
    (kpc \in {"parsed", "processed"} /\ HeaderOnly) =>
        /\ decoded # None
        /\ decoded.rows = <<>>
        /\ SubSeq(decoded.columns, 1, 3) = <<S_ENTITY_TYPE, S_ENTITY_NAME, S_FIRST_CONTEXT>>

\* process_entity_file has returned for a file of the header and the
\* separator alone, text before them.
C22_Witness ==
    /\ kpc = "processed"
    /\ HeaderOnly
    /\ table.preamble # <<>>
    /\ decoded # None

\* The lines of ls before the first that does not start with a pipe.
RECURSIVE pipe_prefix(_)
pipe_prefix(ls) ==
    IF ls = <<>> \/ Head(ls).line = <<>> \/ Head(ls).line[1] # "|" THEN <<>>
    ELSE <<Head(ls)>> \o pipe_prefix(Tail(ls))

\* The cells of the lines of ls that hold n cells, in order.
RECURSIVE rows_of_width(_, _)
rows_of_width(ls, n) ==
    IF ls = <<>> THEN <<>>
    ELSE (IF Len(Head(ls).cells) = n THEN <<Head(ls).cells>> ELSE <<>>)
           \o rows_of_width(Tail(ls), n)

\* C25: parse_entity_table reads the lines after the header row and the
\* separator row up to the first line that does not start with a pipe and
\* nothing after it, drops the rows whose cell count is not the header's and
\* returns the others in file order; without a header row it returns None.
C25_RowRules ==
    kpc = "parsed" =>
        IF table.header
        THEN /\ decoded # None
             /\ decoded.columns = <<S_ENTITY_TYPE, S_ENTITY_NAME, S_FIRST_CONTEXT>>
             /\ decoded.rows = rows_of_width(pipe_prefix(table.body), 3)
        ELSE decoded = None

\* A row of the wrong width was dropped, the row after it was read, and
\* the row after a line of text was not.
C25_Witness ==
    /\ kpc = "parsed"
    /\ table.header
    /\ Len(table.body) = 3
    /\ Len(table.body[1].cells) = 2
    /\ Len(table.body[2].cells) = 3
    /\ table.body[3].cells = <<>>
    /\ decoded # None
    /\ Len(decoded.rows) = 1

\* ------------------------------------------------- chunk_text boundaries
\* The iterations of the run that cut before the end of the text: the
\* boundaries that are not the final one.
NonFinal == {i \in 1..Len(cuts) : cuts[i][1] + chunk_size < Len(text)}

\* The naive cut point of the i-th chunk.
naive(i) == cuts[i][1] + chunk_size

\* The marker m occupies the characters [a, a + Len(m)) of the text.
MarkerAt(m, a) ==
    /\ a >= 0 /\ a + Len(m) <= Len(text)
    /\ \A k \in 1..Len(m) : text[a + k] = m[k]

\* The positions at which marker m lies whole inside the window of
\* 2 x overlap characters centred on the naive cut point of chunk i.
InWindow(m, i) ==
    {a \in 0..Len(text) :
        /\ MarkerAt(m, a)
        /\ naive(i) - overlap <= a
        /\ a + Len(m) <= naive(i) + overlap}

\* The ends of the markers that lie in the window of chunk i.
MarkerEnds(i) == UNION {{a + Len(m) : a \in InWindow(m, i)} : m \in Range(break_chars)}

SetMax(S) == CHOOSE x \in S : \A y \in S : y <= x

\* C23: at every boundary that is not the final one the cut is just after
\* the rightmost marker that lies in the window, the whole marker ending
\* the earlier chunk, and the naive boundary when no marker lies in it.
C23_CutAfterWholeMarker ==
    (cpc = "returned" /\ ValidConfig) =>
        \A i \in NonFinal :
            cuts[i][2] = IF MarkerEnds(i) = {} THEN naive(i) ELSE SetMax(MarkerEnds(i))

\* C24: when a sentence-ending marker (a period and a space) lies in the
\* window of a boundary and no paragraph break does, the cut is at the
\* rightmost such marker, after its period or after its space, although a
\* raw newline may lie further right in the window.
C24_SentenceOverNewline ==
    (cpc = "returned" /\ ValidConfig) =>
        \A i \in NonFinal :
            (/\ InWindow(<<".", " ">>, i) # {}
             /\ InWindow(<<".", " ", "\n">>, i) = {}
             /\ InWindow(<<"\n", "\n">>, i) = {})
              => LET a == SetMax(InWindow(<<".", " ">>, i))
                 IN cuts[i][2] \in {a + 1, a + 2}

\* ------------------------------------------------ aggregation, repeated
\* The aggregate was saved under metadata_dir.
Saved == <<".", F_AGGREGATED>> \in DOMAIN files

\* C26: a call of aggregate_entities made after the aggregate was saved
\* under metadata_dir does not read the saved file as a document and
\* yields the keys and the documents the call before it yielded; the name
\* of the saved file is among the documents of no record.
C26_RerunIdempotent ==
    [][(calls' = calls + 1 /\ Saved /\ aggregated_data # None /\ aggregated_data' # None)
         => /\ <<".", F_AGGREGATED>> \notin Range(entity_files')
            /\ \A i \in 1..Len(aggregated_data'.rows) :
                  F_AGGREGATED \notin Range(aggregated_data'.rows[i][4])
            /\ keys_and_documents(aggregated_from(aggregated_data', 1))
                 = keys_and_documents(aggregated_from(aggregated_data, 1))]_vars

\* The files the last call read that hold a record with the key k.
files_holding(k) ==
    {p \in Range(entity_files) :
        /\ is_readable(p)
        /\ \E r \in Range(records_from(frames_read[p], 1)) : r.key = k}

\* C27: a record whose key occurs in n of the table files that were read,
\* whatever their directories, has exactly n documents.
C27_DistinctFilesDistinctIds ==
    Grouped =>
      LET out == aggregated_from(aggregated_data, 1)
      IN \A i \in 1..Len(out) :
           Len(out[i].documents) = Cardinality(files_holding(out[i].key))

\* C28: after every call of aggregate_entities the stored aggregated_data
\* is the aggregate of the tables that call could read; when the call
\* found no entity file or could read none, no record of an earlier call
\* is left in it.
C28_ReflectsLatestCall ==
    apc = "aggregated" =>
        IF \E p \in Range(entity_files) : is_readable(p)
        THEN aggregated_data = aggregated_in(entity_files)
        ELSE aggregated_data = None \/ aggregated_data.rows = <<>>

\* ------------------------------------------------------ chunk lengths
\* C29 as stated: under a valid configuration every chunk has at most
\* chunk_size + overlap characters and every chunk but the last at least
\* chunk_size - overlap + 1.
C29_LengthBoundsAsStated ==
    (cpc = "returned" /\ ValidConfig) =>
        \A i \in 1..Len(chunks) :
            /\ Len(chunks[i]) <= chunk_size + overlap
            /\ i < Len(chunks) => Len(chunks[i]) >= chunk_size - overlap + 1

\* C29, amended: under a valid configuration every chunk has at most
\* chunk_size + overlap characters and every chunk but the last at least
\* chunk_size - overlap + 1 when overlap >= 1 and exactly chunk_size when
\* overlap = 0.
C29_LengthBounds ==
    (cpc = "returned" /\ ValidConfig) =>
        \A i \in 1..Len(chunks) :
            /\ Len(chunks[i]) <= chunk_size + overlap
            /\ i < Len(chunks) =>
                 IF overlap = 0 THEN Len(chunks[i]) = chunk_size
                 ELSE Len(chunks[i]) >= chunk_size - overlap + 1

\* A chunk that is not the last has the least length allowed, below
\* chunk_size.
C29_Witness ==
    /\ cpc = "returned" /\ ValidConfig
    /\ Len(chunks) >= 2
    /\ overlap >= 2
    /\ Len(chunks[1]) = chunk_size - overlap + 1

\* ------------------------------------------------------ normalized keys
\* C30: the normalized key of every record of the entity sets and of every
\* key of the context cache is not the empty string.
C30_KeyNotEmpty ==
    \A r \in entities \cup all_entities \cup DOMAIN all_contexts :
        normalize_entity(r[2]) # <<>>

====
